---- MODULE Spec2Model ----
(***************************************************************************)
(* Session progression and scoring engine of the incident-response quiz    *)
(* backend (gameplay app).  The store (GameSession, StageRun, QuestionRun,  *)
(* Answer rows) is the state; every HTTP handler of gameplay/views.py and   *)
(* every service method of gameplay/services.py is a sequence of steps of   *)
(* a request slot.  A step is one database statement group that commits     *)
(* together: a plain SELECT, an autocommit UPDATE/INSERT, the acquisition   *)
(* of a row lock by SELECT ... FOR UPDATE, or the rest of a transaction     *)
(* run under that lock.  Rows written inside a transaction become visible   *)
(* at its commit, and nobody else can write the locked session row in the   *)
(* meantime, so the body of a locked transaction is one step.               *)
(*                                                                         *)
(* Response marshalling (serializers), authentication and timestamps are    *)
(* outside the engine and are not modelled; "newest" session is the one     *)
(* with the highest id.                                                     *)
(***************************************************************************)
EXTENDS Integers, Sequences, FiniteSets, TLC

VARIABLES
    files,          \* topic -> scenario definition (the scenarios/data/*.json files)
    sessions,       \* GameSession rows, indexed by id 1..Len(sessions)
    answers,        \* per session id: the Answer rows of that session, in creation order
    question_runs,  \* per session id: the QuestionRun rows, in creation order
    stage_runs,     \* per session id: the set of StageRun rows
    lock,           \* per session id: the request holding the row lock, 0 when free
    req,            \* per request slot: the handler's position and its parameters
    last,           \* the most recent response sent by any handler
    ops,            \* the number of requests received so far
    exhausted       \* history: the ids of the sessions on which a submit_answer
                    \* found no due question and reported "no more questions"

vars == <<files, sessions, answers, question_runs, stage_runs, lock, req, last, ops,
          exhausted>>

----------------------------------------------------------------------------
(* Bounds of the model *)

MaxSessions == 2
MaxReqs == 2
MaxOps == 2
MaxPos == 3

(* Program constants *)

DefaultWrongLimit == 5

DefaultAdvice == "Too many incorrect answers."

Terminal == {"completed", "failed", "abandoned"}

----------------------------------------------------------------------------
(* Inputs: users, topics, scenario files, request parameters *)

Users == {"u1"}
FileTopics == {"data_loss"}
Topics == FileTopics \cup {"nofile"}
QuestionIds == {"q1", "q2", "q3"}
Labels == {"Yes", "No", "Maybe"}
WrongLimits == {1, 2}

Opt(t, s) == [text |-> t, score |-> s]
Qn(id, opts) == [id |-> id, options |-> opts]
St(name, qs) == [stage |-> name, questions |-> qs]

YesNo == <<Opt("Yes", 5), Opt("No", -5)>>
YesNoMaybe == <<Opt("Yes", 5), Opt("No", -5), Opt("Maybe", 0)>>

ScnSingle ==
    [stages |-> <<St("prepare", <<Qn("q1", YesNo)>>)>>]
ScnTwoStage ==
    [stages |-> <<St("prepare", <<Qn("q1", YesNoMaybe), Qn("q2", YesNo)>>),
                  St("detect", <<Qn("q3", YesNo)>>)>>]
ScnGap ==
    [stages |-> <<St("prepare", <<Qn("q1", YesNo)>>),
                  St("detect", <<>>),
                  St("analyse", <<Qn("q2", YesNo)>>)>>]
ScnEmptyFirst ==
    [stages |-> <<St("prepare", <<>>), St("detect", <<Qn("q1", YesNo)>>)>>]
ScnNoStages ==
    [stages |-> <<>>]
\* two stages that carry the same stage name
ScnRepeat ==
    [stages |-> <<St("prepare", <<Qn("q1", YesNo)>>), St("prepare", <<Qn("q2", YesNo)>>)>>]

Scenarios == {ScnSingle, ScnTwoStage, ScnGap, ScnEmptyFirst, ScnNoStages, ScnRepeat}

----------------------------------------------------------------------------
(* Scenario helpers *)

FileExists(topic) == topic \in DOMAIN files

load_scenario(topic) == files[topic]

\* (stage_obj, question_obj), each possibly None: the two flags say which is not None;
\* when both are set the question is QuestionAt(scn, stage_index, question_index).
get_stage_and_question(scn, stage_index, question_index) ==
    LET stages == scn.stages
    IN  IF stage_index < 0 \/ stage_index >= Len(stages)
        THEN [stage_obj |-> FALSE, question_obj |-> FALSE]
        ELSE LET questions == stages[stage_index + 1].questions
             IN  IF question_index < 0 \/ question_index >= Len(questions)
                 THEN [stage_obj |-> TRUE, question_obj |-> FALSE]
                 ELSE [stage_obj |-> TRUE, question_obj |-> TRUE]

StageAt(scn, stage_index) == scn.stages[stage_index + 1]

QuestionAt(scn, stage_index, question_index) ==
    scn.stages[stage_index + 1].questions[question_index + 1]

\* "stage_obj and question_obj" of the handlers
Due(scn, stage_index, question_index) ==
    LET p == get_stage_and_question(scn, stage_index, question_index)
    IN  p.stage_obj /\ p.question_obj

\* JsonScenarioProvider.get_current_question: TRUE when it returns a CurrentQuestion
get_current_question(scn, s_idx, q_idx) ==
    LET stages == scn.stages
    IN  IF s_idx >= Len(stages)
        THEN FALSE
        ELSE q_idx < Len(stages[s_idx + 1].questions)

\* advance_pointer with the reset of question_index at a stage boundary forgotten
advance_pointer_no_reset(scn, session) ==
    LET stages == scn.stages
        s1 == [session EXCEPT !.current_question_index = @ + 1]
    IN  IF 0 <= s1.current_stage_index /\ s1.current_stage_index < Len(stages)
        THEN IF s1.current_question_index
                    >= Len(stages[s1.current_stage_index + 1].questions)
             THEN [s1 EXCEPT !.current_stage_index = @ + 1]
             ELSE s1
        ELSE s1

\* advance_pointer going back to the first question of the same stage at the end of
\* a stage (the stage index is not incremented)
advance_pointer_restart_stage(scn, session) ==
    LET stages == scn.stages
        s1 == [session EXCEPT !.current_question_index = @ + 1]
    IN  IF 0 <= s1.current_stage_index /\ s1.current_stage_index < Len(stages)
        THEN IF s1.current_question_index
                    >= Len(stages[s1.current_stage_index + 1].questions)
             THEN [s1 EXCEPT !.current_question_index = 0]
             ELSE s1
        ELSE s1

\* advance_pointer leaving the pointer where it is
advance_pointer_stay(scn, session) == session

\* advance_pointer comparing with > instead of >= at the end of a stage
advance_pointer_off_by_one(scn, session) ==
    LET stages == scn.stages
        s1 == [session EXCEPT !.current_question_index = @ + 1]
    IN  IF 0 <= s1.current_stage_index /\ s1.current_stage_index < Len(stages)
        THEN IF s1.current_question_index
                    > Len(stages[s1.current_stage_index + 1].questions)
             THEN [s1 EXCEPT !.current_stage_index = @ + 1,
                             !.current_question_index = 0]
             ELSE s1
        ELSE s1

\* The index of the first stage from s on that has a question, Len(stages) when none
RECURSIVE FirstNonEmptyFrom(_, _)
FirstNonEmptyFrom(stages, s) ==
    IF s >= Len(stages) THEN Len(stages)
    ELSE IF Len(stages[s + 1].questions) > 0 THEN s
    ELSE FirstNonEmptyFrom(stages, s + 1)

\* advance_pointer looping over the empty stages that follow the current one
advance_pointer_skip_empty(scn, session) ==
    LET stages == scn.stages
        s1 == [session EXCEPT !.current_question_index = @ + 1]
    IN  IF 0 <= s1.current_stage_index /\ s1.current_stage_index < Len(stages)
        THEN IF s1.current_question_index
                    >= Len(stages[s1.current_stage_index + 1].questions)
             THEN [s1 EXCEPT !.current_stage_index = FirstNonEmptyFrom(stages, @ + 1),
                             !.current_question_index = 0]
             ELSE s1
        ELSE s1

advance_pointer(scn, session) ==
    LET stages == scn.stages
        s1 == [session EXCEPT !.current_question_index = @ + 1]
    IN  IF 0 <= s1.current_stage_index /\ s1.current_stage_index < Len(stages)
        THEN IF s1.current_question_index
                    >= Len(stages[s1.current_stage_index + 1].questions)
             THEN [s1 EXCEPT !.current_stage_index = @ + 1,
                             !.current_question_index = 0]
             ELSE s1
        ELSE s1

\* The scoring loop: the score of the first option whose text equals the selection
RECURSIVE FindScore(_, _, _)
FindScore(options, selected_text, i) ==
    IF i > Len(options)
    THEN [found |-> FALSE, score |-> 0]
    ELSE IF options[i].text = selected_text
         THEN [found |-> TRUE, score |-> options[i].score]
         ELSE FindScore(options, selected_text, i + 1)

\* score_delta_of scoring a label that matches no option as 0 instead of rejecting it
score_delta_of_unmatched_zero(question, selected_text) ==
    [found |-> TRUE, score |-> FindScore(question.options, selected_text, 1).score]

score_delta_of(question, selected_text) == FindScore(question.options, selected_text, 1)

----------------------------------------------------------------------------
(* The store *)

NewSession(user, topic, wrong_limit) ==
    [user |-> user, topic |-> topic,
     current_stage_index |-> 0, current_question_index |-> 0,
     status |-> "in_progress", ended_reason |-> "null",
     total_score |-> 0, wrong_count |-> 0, wrong_limit |-> wrong_limit,
     advice_summary |-> ""]

SessionIds == 1..Len(sessions)

\* GameSession.objects.filter(id=session_id, user=request.user).first()
SessionFor(sid, user) == sid \in SessionIds /\ sessions[sid].user = user

\* Answer.objects.filter(session=session, question_run__question_key=question_id).exists()
AnswerExists(sid, question_id) ==
    \E i \in DOMAIN answers[sid] : answers[sid][i].question_key = question_id

\* filter(user, topic, status="in_progress").order_by("-started_at").first(); 0 when none
NewestInProgress(user, topic) ==
    LET S == {i \in SessionIds : /\ sessions[i].user = user
                                 /\ sessions[i].topic = topic
                                 /\ sessions[i].status = "in_progress"}
    IN  IF S = {} THEN 0 ELSE CHOOSE i \in S : \A j \in S : j <= i

NoRace == [qid |-> "-", text |-> "-"]

IdleReq ==
    [pc |-> "idle", user |-> "-", topic |-> "-", sid |-> 0, raced |-> NoRace]

\* A response: the operation, the question id it was about, its outcome, the id of
\* the question it names as next, whether it lost a race (see RespondCreated),
\* and, for start_or_resume, the id of the session it returns (0 otherwise).
Reply(op, qid, outcome, next, raced) ==
    [op |-> op, qid |-> qid, outcome |-> outcome, next |-> next, raced |-> raced,
     sid |-> 0]

StartReply(op, sid, outcome, next) ==
    [Reply(op, "-", outcome, next, FALSE) EXCEPT !.sid = sid]

NextId(scn, session) ==
    IF Due(scn, session.current_stage_index, session.current_question_index)
    THEN QuestionAt(scn, session.current_stage_index, session.current_question_index).id
    ELSE "none"

----------------------------------------------------------------------------
Init ==
    /\ files \in [FileTopics -> Scenarios]
    /\ sessions \in {<<>>} \cup
            {<<NewSession(u, t, w)>> : u \in {"u1"}, t \in FileTopics, w \in WrongLimits}
    /\ answers = [i \in 1..MaxSessions |-> <<>>]
    /\ question_runs = [i \in 1..MaxSessions |-> <<>>]
    /\ stage_runs = [i \in 1..MaxSessions |-> {}]
    /\ lock = [i \in 1..MaxSessions |-> 0]
    /\ req = [r \in 1..MaxReqs |-> IdleReq]
    /\ last = Reply("none", "-", "none", "none", FALSE)
    /\ ops = 0
    /\ exhausted = {}

----------------------------------------------------------------------------
(* Steps shared by the handlers *)

Reqs == 1..MaxReqs

\* The handler of slot r sends its response and the slot becomes free again.
Respond(r, reply) ==
    /\ req' = [req EXCEPT ![r] = IdleReq]
    /\ last' = reply

\* As Respond, for a submission that has just committed an accepted answer: the
\* submissions on the same session that were waiting for the row lock meanwhile
\* remember the (question, label) that won the race.
RespondCreated(r, question_id, selected_text, reply) ==
    /\ req' = [q \in Reqs |->
                IF q = r THEN IdleReq
                ELSE IF req[q].pc \in {"sub_wait", "svc_wait"} /\ req[q].sid = req[r].sid
                     THEN [req[q] EXCEPT !.raced = [qid |-> question_id,
                                                    text |-> selected_text]]
                     ELSE req[q]]
    /\ last' = reply

StoreUnchanged == UNCHANGED <<sessions, answers, question_runs, stage_runs>>

\* A free slot receives a request.
Receive(r) ==
    /\ req[r].pc = "idle"
    /\ ops < MaxOps
    /\ ops' = ops + 1
    /\ UNCHANGED exhausted

----------------------------------------------------------------------------
(* views.start_or_resume *)

\* The query for the newest in_progress session; a resumed session is answered at once.
StartFind(r, user, topic) ==
    /\ Receive(r)
    /\ UNCHANGED <<files, lock>>
    /\ StoreUnchanged
    /\ IF topic = ""
       THEN Respond(r, Reply("start", "-", "BadRequest", "none", FALSE))
       ELSE LET sid == NewestInProgress(user, topic)
            IN  IF sid = 0
                THEN /\ req' = [req EXCEPT ![r] = [IdleReq EXCEPT !.pc = "start_create",
                                                   !.user = user, !.topic = topic]]
                     /\ UNCHANGED last
                ELSE IF ~FileExists(topic)
                     THEN Respond(r, StartReply("start", sid, "ScenarioNotFound", "none"))
                     ELSE Respond(r, StartReply("start", sid, "resumed",
                                                NextId(load_scenario(topic), sessions[sid])))

\* No session was found: one is created, then the scenario is loaded.
StartCreate(r) ==
    /\ req[r].pc = "start_create"
    /\ UNCHANGED <<ops, exhausted>>
    /\ Len(sessions) < MaxSessions
    /\ LET session == NewSession(req[r].user, req[r].topic, DefaultWrongLimit)
           sid == Len(sessions) + 1
       IN  /\ sessions' = Append(sessions, session)
           /\ IF ~FileExists(req[r].topic)
              THEN Respond(r, StartReply("start", sid, "ScenarioNotFound", "none"))
              ELSE Respond(r, StartReply("start", sid, "started",
                                         NextId(load_scenario(req[r].topic), session)))
    /\ UNCHANGED <<files, answers, question_runs, stage_runs, lock>>

----------------------------------------------------------------------------
(* views.current_state *)

\* The unlocked read of the session and the resolution of the due question.
CurrentRead(r, user, sid) ==
    /\ Receive(r)
    /\ UNCHANGED <<files, lock>>
    /\ StoreUnchanged
    /\ IF ~SessionFor(sid, user)
       THEN Respond(r, Reply("current", "-", "NotFound", "none", FALSE))
       ELSE LET session == sessions[sid]
            IN  IF session.status # "in_progress"
                THEN Respond(r, Reply("current", "-", "ok", "none", FALSE))
                ELSE IF ~FileExists(session.topic)
                THEN Respond(r, Reply("current", "-", "ScenarioNotFound", "none", FALSE))
                ELSE IF Due(load_scenario(session.topic), session.current_stage_index,
                            session.current_question_index)
                THEN Respond(r, Reply("current", "-", "ok",
                                      NextId(load_scenario(session.topic), session), FALSE))
                ELSE /\ req' = [req EXCEPT ![r] = [IdleReq EXCEPT !.pc = "cur_write",
                                                   !.sid = sid]]
                     /\ UNCHANGED last

\* save(update_fields=[status, ended_reason, ended_at]) of the session read before;
\* the UPDATE waits while another transaction holds the row lock.
CurrentWrite(r) ==
    /\ req[r].pc = "cur_write"
    /\ UNCHANGED <<ops, exhausted>>
    /\ lock[req[r].sid] = 0
    /\ sessions' = [sessions EXCEPT ![req[r].sid].status = "completed",
                                    ![req[r].sid].ended_reason = "finished"]
    /\ Respond(r, Reply("current", "-", "finished", "none", FALSE))
    /\ UNCHANGED <<files, answers, question_runs, stage_runs, lock>>

----------------------------------------------------------------------------
(* views.quit_session *)

QuitRead(r, user, sid) ==
    /\ Receive(r)
    /\ UNCHANGED <<files, lock>>
    /\ StoreUnchanged
    /\ IF ~SessionFor(sid, user)
       THEN Respond(r, Reply("quit", "-", "NotFound", "none", FALSE))
       ELSE IF sessions[sid].status = "in_progress"
            THEN /\ req' = [req EXCEPT ![r] = [IdleReq EXCEPT !.pc = "quit_write",
                                               !.sid = sid]]
                 /\ UNCHANGED last
            ELSE Respond(r, Reply("quit", "-", "ok", "none", FALSE))

\* QuitWrite saving with update_fields = [status] only
QuitWriteStatusOnly(r) ==
    /\ req[r].pc = "quit_write"
    /\ UNCHANGED <<ops, exhausted>>
    /\ lock[req[r].sid] = 0
    /\ sessions' = [sessions EXCEPT ![req[r].sid].status = "abandoned"]
    /\ Respond(r, Reply("quit", "-", "ok", "none", FALSE))
    /\ UNCHANGED <<files, answers, question_runs, stage_runs, lock>>

\* save(update_fields=[status, ended_reason, ended_at]) of the session read before;
\* the UPDATE waits while another transaction holds the row lock.
QuitWrite(r) ==
    /\ req[r].pc = "quit_write"
    /\ UNCHANGED <<ops, exhausted>>
    /\ lock[req[r].sid] = 0
    /\ sessions' = [sessions EXCEPT ![req[r].sid].status = "abandoned",
                                    ![req[r].sid].ended_reason = "user_quit"]
    /\ Respond(r, Reply("quit", "-", "ok", "none", FALSE))
    /\ UNCHANGED <<files, answers, question_runs, stage_runs, lock>>

----------------------------------------------------------------------------
(* views.submit_answer *)

\* SubmitCheck trusting the client's question id: it neither looks the id up in the
\* ledger nor compares it with the due question.
SubmitCheckTrustingId(sid, question_id, selected_text) ==
    LET session == sessions[sid]
    IN  IF session.status # "in_progress" THEN "InvalidState"
        ELSE IF ~FileExists(session.topic) THEN "ScenarioNotFound"
        ELSE LET scn == load_scenario(session.topic)
                 si == session.current_stage_index
                 qi == session.current_question_index
             IN  IF ~Due(scn, si, qi) THEN "NoMoreQuestions"
                 ELSE IF ~score_delta_of(QuestionAt(scn, si, qi), selected_text).found
                      THEN "OptionNotFound"
                      ELSE "Accept"

\* SubmitCheck without the comparison of question_id with the due question's id
SubmitCheckNoMismatch(sid, question_id, selected_text) ==
    LET session == sessions[sid]
    IN  IF session.status # "in_progress" THEN "InvalidState"
        ELSE IF AnswerExists(sid, question_id) THEN "Conflict"
        ELSE IF ~FileExists(session.topic) THEN "ScenarioNotFound"
        ELSE LET scn == load_scenario(session.topic)
                 si == session.current_stage_index
                 qi == session.current_question_index
             IN  IF ~Due(scn, si, qi) THEN "NoMoreQuestions"
                 ELSE IF ~score_delta_of(QuestionAt(scn, si, qi), selected_text).found
                      THEN "OptionNotFound"
                      ELSE "Accept"

\* SubmitCheck without the status check
SubmitCheckNoStatus(sid, question_id, selected_text) ==
    LET session == sessions[sid]
    IN  IF AnswerExists(sid, question_id) THEN "Conflict"
        ELSE IF ~FileExists(session.topic) THEN "ScenarioNotFound"
        ELSE LET scn == load_scenario(session.topic)
                 si == session.current_stage_index
                 qi == session.current_question_index
             IN  IF ~Due(scn, si, qi) THEN "NoMoreQuestions"
                 ELSE IF QuestionAt(scn, si, qi).id # question_id THEN "QuestionMismatch"
                 ELSE IF ~score_delta_of(QuestionAt(scn, si, qi), selected_text).found
                      THEN "OptionNotFound"
                      ELSE "Accept"

\* The checks made under the row lock before anything is written, in the order of
\* the code; "Accept" when the answer is to be scored and recorded.
SubmitCheck(sid, question_id, selected_text) ==
    LET session == sessions[sid]
    IN  IF session.status # "in_progress" THEN "InvalidState"
        ELSE IF AnswerExists(sid, question_id) THEN "Conflict"
        ELSE IF ~FileExists(session.topic) THEN "ScenarioNotFound"
        ELSE LET scn == load_scenario(session.topic)
                 si == session.current_stage_index
                 qi == session.current_question_index
             IN  IF ~Due(scn, si, qi) THEN "NoMoreQuestions"
                 ELSE IF QuestionAt(scn, si, qi).id # question_id THEN "QuestionMismatch"
                 ELSE IF ~score_delta_of(QuestionAt(scn, si, qi), selected_text).found
                      THEN "OptionNotFound"
                      ELSE "Accept"

is_correct_of(score_delta) == score_delta > 0

\* SubmitScore adding the delta to total_score for a correct answer only
SubmitScoreCorrectOnly(session, score_delta) ==
    [session EXCEPT !.total_score = IF is_correct_of(score_delta) THEN @ + score_delta ELSE @,
                    !.wrong_count = IF is_correct_of(score_delta) THEN @ ELSE @ + 1]

\* total_score, wrong_count of the session after an accepted answer
SubmitScore(session, score_delta) ==
    [session EXCEPT !.total_score = @ + score_delta,
                    !.wrong_count = IF is_correct_of(score_delta) THEN @ ELSE @ + 1]

\* SubmitApply failing the session only once wrong_count exceeds wrong_limit
SubmitApplyFailLate(scn, session, score_delta) ==
    LET s1 == SubmitScore(session, score_delta)
    IN  IF s1.wrong_count > s1.wrong_limit
        THEN [s1 EXCEPT !.status = "failed",
                        !.ended_reason = "too_many_wrongs",
                        !.advice_summary = IF @ = "" THEN DefaultAdvice ELSE @]
        ELSE LET s2 == advance_pointer(scn, s1)
             IN  IF ~Due(scn, s2.current_stage_index, s2.current_question_index)
                 THEN [s2 EXCEPT !.status = "completed", !.ended_reason = "finished"]
                 ELSE s2

\* The session saved by an accepted answer: the fail condition, else the advance
\* and the finish condition.
SubmitApply(scn, session, score_delta) ==
    LET s1 == SubmitScore(session, score_delta)
    IN  IF s1.wrong_count >= s1.wrong_limit
        THEN [s1 EXCEPT !.status = "failed",
                        !.ended_reason = "too_many_wrongs",
                        !.advice_summary = IF @ = "" THEN DefaultAdvice ELSE @]
        ELSE LET s2 == advance_pointer(scn, s1)
             IN  IF ~Due(scn, s2.current_stage_index, s2.current_question_index)
                 THEN [s2 EXCEPT !.status = "completed", !.ended_reason = "finished"]
                 ELSE s2

\* StageRun.objects.get_or_create(session, stage, defaults order/status), made active,
\* stage_score added, and marked done when the session finishes after the advance.
StageRunsAfter(runs, stage_name, order, score_delta, done) ==
    LET old == IF \E x \in runs : x.stage = stage_name
               THEN CHOOSE x \in runs : x.stage = stage_name
               ELSE [stage |-> stage_name, order |-> order, status |-> "active",
                     stage_score |-> 0]
        new == [old EXCEPT !.status = IF done THEN "done" ELSE "active",
                           !.stage_score = @ + score_delta]
    IN  (runs \ {old}) \cup {new}

\* The inserts of an accepted answer hit a unique constraint: the StageRun found or
\* created for the stage name (unique per session and stage, and per session and
\* order) already has a QuestionRun with this order or this question key.
InsertClash(sid, stage_name, stage_index, question_index, question_id) ==
    \/ /\ ~\E x \in stage_runs[sid] : x.stage = stage_name
       /\ \E x \in stage_runs[sid] : x.order = stage_index
    \/ \E i \in DOMAIN question_runs[sid] :
          /\ question_runs[sid][i].stage = stage_name
          /\ \/ question_runs[sid][i].order = question_index
             \/ question_runs[sid][i].question_key = question_id

\* The start of SELECT ... FOR UPDATE: a missing row is answered at once, an
\* existing row makes the request wait for the row lock.  question_id and
\* selected_text are read by the transaction body alone and are drawn there.
SubmitRequest(r, user, sid) ==
    /\ Receive(r)
    /\ UNCHANGED <<files, lock>>
    /\ StoreUnchanged
    /\ IF ~SessionFor(sid, user)
       THEN Respond(r, Reply("submit", "-", "NotFound", "none", FALSE))
       ELSE /\ req' = [req EXCEPT ![r] = [IdleReq EXCEPT !.pc = "sub_wait", !.sid = sid]]
            /\ UNCHANGED last

\* SubmitLock taking a lock on the whole table instead of the session's row
SubmitLockTable(r) ==
    /\ req[r].pc = "sub_wait"
    /\ UNCHANGED <<ops, exhausted>>
    /\ \A sid \in 1..MaxSessions : lock[sid] = 0
    /\ lock' = [lock EXCEPT ![req[r].sid] = r]
    /\ req' = [req EXCEPT ![r].pc = "sub_locked"]
    /\ UNCHANGED <<files, last>>
    /\ StoreUnchanged

\* The row lock is granted: the transaction now owns the session row.
SubmitLock(r) ==
    /\ req[r].pc = "sub_wait"
    /\ UNCHANGED <<ops, exhausted>>
    /\ lock[req[r].sid] = 0
    /\ lock' = [lock EXCEPT ![req[r].sid] = r]
    /\ req' = [req EXCEPT ![r].pc = "sub_locked"]
    /\ UNCHANGED <<files, last>>
    /\ StoreUnchanged

\* The request repeats the (question, label) of an answer committed while it waited.
Raced(r, question_id, selected_text) ==
    req[r].raced = [qid |-> question_id, text |-> selected_text]

\* The transaction body and its commit, which releases the row lock.
SubmitBody(r, question_id, selected_text) ==
    /\ req[r].pc = "sub_locked"
    /\ UNCHANGED ops
    /\ lock' = [lock EXCEPT ![req[r].sid] = 0]
    /\ UNCHANGED files
    /\ LET sid == req[r].sid
           session == sessions[sid]
           check == SubmitCheck(sid, question_id, selected_text)
           raced == Raced(r, question_id, selected_text)
       IN  IF check = "NoMoreQuestions"
           THEN /\ sessions' = [sessions EXCEPT ![sid].status = "completed",
                                                ![sid].ended_reason = "finished"]
                /\ UNCHANGED <<answers, question_runs, stage_runs>>
                /\ Respond(r, Reply("submit", question_id, check, "none", raced))
                /\ exhausted' = exhausted \cup {sid}
           ELSE IF check # "Accept"
           THEN /\ StoreUnchanged
                /\ UNCHANGED exhausted
                /\ Respond(r, Reply("submit", question_id, check, "none", raced))
           ELSE LET scn == load_scenario(session.topic)
                    si == session.current_stage_index
                    qi == session.current_question_index
                    score_delta == score_delta_of(QuestionAt(scn, si, qi), selected_text).score
                    stage_name == StageAt(scn, si).stage
                    saved == SubmitApply(scn, session, score_delta)
                IN  IF InsertClash(sid, stage_name, si, qi, question_id)
                    THEN \* IntegrityError: the transaction is rolled back
                         /\ StoreUnchanged
                         /\ UNCHANGED exhausted
                         /\ Respond(r, Reply("submit", question_id, "IntegrityError",
                                             "none", raced))
                    ELSE /\ UNCHANGED exhausted
                         /\ sessions' = [sessions EXCEPT ![sid] = saved]
                         /\ stage_runs' = [stage_runs EXCEPT ![sid] =
                                 StageRunsAfter(@, stage_name, si, score_delta,
                                                saved.status = "completed")]
                         /\ question_runs' = [question_runs EXCEPT ![sid] =
                                 Append(@, [stage |-> stage_name,
                                            question_key |-> question_id,
                                            order |-> qi, status |-> "answered"])]
                         /\ answers' = [answers EXCEPT ![sid] =
                                 Append(@, [question_key |-> question_id,
                                            stage |-> stage_name,
                                            selected_text |-> selected_text,
                                            score_delta |-> score_delta,
                                            is_correct |-> is_correct_of(score_delta)])]
                         /\ RespondCreated(r, question_id, selected_text,
                                 Reply("submit", question_id, "Created",
                                       IF saved.status = "in_progress"
                                       THEN NextId(scn, saved) ELSE "none",
                                       raced))

----------------------------------------------------------------------------
(* services.SessionService *)

\* "current" of the service responses: the id of the question get_current_question
\* returns, "none" when it returns None.
SvcCurrentId(scn, session) ==
    IF get_current_question(scn, session.current_stage_index,
                            session.current_question_index)
    THEN QuestionAt(scn, session.current_stage_index, session.current_question_index).id
    ELSE "none"

\* SessionService.start_or_resume up to its query; a resumed session is answered at
\* once (provider.load raises when the topic has no file).
SvcStartFind(r, user, topic) ==
    /\ Receive(r)
    /\ UNCHANGED <<files, lock>>
    /\ StoreUnchanged
    /\ IF topic = ""
       THEN Respond(r, Reply("svc_start", "-", "BadRequest", "none", FALSE))
       ELSE LET sid == NewestInProgress(user, topic)
            IN  IF sid = 0
                THEN /\ req' = [req EXCEPT ![r] = [IdleReq EXCEPT !.pc = "svc_start_create",
                                                   !.user = user, !.topic = topic]]
                     /\ UNCHANGED last
                ELSE IF ~FileExists(topic)
                     THEN Respond(r, StartReply("svc_start", sid, "ScenarioNotFound", "none"))
                     ELSE Respond(r, StartReply("svc_start", sid, "resumed",
                                        SvcCurrentId(load_scenario(topic), sessions[sid])))

\* GameSession.objects.create(user, topic, status="in_progress"), then the load.
SvcStartCreate(r) ==
    /\ req[r].pc = "svc_start_create"
    /\ UNCHANGED <<ops, exhausted>>
    /\ Len(sessions) < MaxSessions
    /\ LET session == NewSession(req[r].user, req[r].topic, DefaultWrongLimit)
           sid == Len(sessions) + 1
       IN  /\ sessions' = Append(sessions, session)
           /\ IF ~FileExists(req[r].topic)
              THEN Respond(r, StartReply("svc_start", sid, "ScenarioNotFound", "none"))
              ELSE Respond(r, StartReply("svc_start", sid, "started",
                                SvcCurrentId(load_scenario(req[r].topic), session)))
    /\ UNCHANGED <<files, answers, question_runs, stage_runs, lock>>

\* SessionService.current_state(session): the caller passes a session row; the
\* method loads the scenario, resolves the due question and writes nothing.
SvcCurrent(r, sid) ==
    /\ Receive(r)
    /\ sid \in SessionIds
    /\ UNCHANGED <<files, lock>>
    /\ StoreUnchanged
    /\ IF ~FileExists(sessions[sid].topic)
       THEN Respond(r, Reply("svc_current", "-", "ScenarioNotFound", "none", FALSE))
       ELSE Respond(r, Reply("svc_current", "-", "ok",
                             SvcCurrentId(load_scenario(sessions[sid].topic),
                                          sessions[sid]), FALSE))

----------------------------------------------------------------------------
(* services.AnswerService.submit_answer *)

\* The checks of the service, in the order of its code.  It looks up the ledger by
\* the question id, as the view does through the question run's key.
SvcCheck(sid, question_id, selected_text) ==
    LET session == sessions[sid]
    IN  IF session.status # "in_progress" THEN "InvalidState"
        ELSE IF ~FileExists(session.topic) THEN "ScenarioNotFound"
        ELSE LET scn == load_scenario(session.topic)
                 si == session.current_stage_index
                 qi == session.current_question_index
             IN  IF ~get_current_question(scn, si, qi) THEN "NoMoreQuestions"
                 ELSE IF QuestionAt(scn, si, qi).id # question_id THEN "QuestionMismatch"
                 ELSE IF AnswerExists(sid, question_id) THEN "Conflict"
                 ELSE IF ~score_delta_of(QuestionAt(scn, si, qi), selected_text).found
                      THEN "OptionNotFound"
                      ELSE "Accept"

is_wrong_of(score_delta) == score_delta < 0

\* "update session counters"
SvcScore(session, score_delta) ==
    [session EXCEPT !.wrong_count = IF is_wrong_of(score_delta) THEN @ + 1 ELSE @,
                    !.total_score = @ + score_delta]

\* "advance pointer" and "handle stage boundary", written out in the service
SvcAdvance(scn, session) ==
    LET stages == scn.stages
        s1 == [session EXCEPT !.current_question_index = @ + 1]
    IN  IF s1.current_stage_index < Len(stages)
        THEN IF s1.current_question_index
                    >= Len(stages[s1.current_stage_index + 1].questions)
             THEN [s1 EXCEPT !.current_stage_index = @ + 1,
                             !.current_question_index = 0]
             ELSE s1
        ELSE s1

\* The session the service has saved when it returns: counters, advance, fail
\* condition, then the finish condition.
SvcApply(scn, session, score_delta) ==
    LET s1 == SvcAdvance(scn, SvcScore(session, score_delta))
        s2 == IF s1.wrong_count >= s1.wrong_limit
              THEN [s1 EXCEPT !.status = "failed", !.ended_reason = "too_many_wrongs"]
              ELSE s1
    IN  IF /\ s2.status = "in_progress"
           /\ ~get_current_question(scn, s2.current_stage_index, s2.current_question_index)
        THEN [s2 EXCEPT !.status = "completed", !.ended_reason = "finished"]
        ELSE s2

\* The caller passes a session it has loaded; the service re-reads it FOR UPDATE.
SvcSubmitCall(r, sid) ==
    /\ Receive(r)
    /\ sid \in SessionIds
    /\ req' = [req EXCEPT ![r] = [IdleReq EXCEPT !.pc = "svc_wait", !.sid = sid]]
    /\ UNCHANGED <<files, lock, last>>
    /\ StoreUnchanged

SvcSubmitLock(r) ==
    /\ req[r].pc = "svc_wait"
    /\ UNCHANGED <<ops, exhausted>>
    /\ lock[req[r].sid] = 0
    /\ lock' = [lock EXCEPT ![req[r].sid] = r]
    /\ req' = [req EXCEPT ![r].pc = "svc_locked"]
    /\ UNCHANGED <<files, last>>
    /\ StoreUnchanged

\* The body of the @transaction.atomic method and its commit (or its rollback, when
\* it raises: nothing has been written by then).
SvcSubmitBody(r, question_id, selected_text) ==
    /\ req[r].pc = "svc_locked"
    /\ UNCHANGED ops
    /\ lock' = [lock EXCEPT ![req[r].sid] = 0]
    /\ UNCHANGED <<files, question_runs, stage_runs>>
    /\ LET sid == req[r].sid
           session == sessions[sid]
           check == SvcCheck(sid, question_id, selected_text)
           raced == Raced(r, question_id, selected_text)
       IN  IF check = "NoMoreQuestions"
           THEN /\ sessions' = [sessions EXCEPT ![sid].status = "completed",
                                                ![sid].ended_reason = "finished"]
                /\ UNCHANGED answers
                /\ Respond(r, Reply("svc_submit", question_id, check, "none", raced))
                /\ exhausted' = exhausted \cup {sid}
           ELSE IF check # "Accept"
           THEN /\ UNCHANGED <<sessions, answers, exhausted>>
                /\ Respond(r, Reply("svc_submit", question_id, check, "none", raced))
           ELSE LET scn == load_scenario(session.topic)
                    si == session.current_stage_index
                    qi == session.current_question_index
                    score_delta == score_delta_of(QuestionAt(scn, si, qi), selected_text).score
                    saved == SvcApply(scn, session, score_delta)
                IN  /\ UNCHANGED exhausted
                    /\ sessions' = [sessions EXCEPT ![sid] = saved]
                    /\ answers' = [answers EXCEPT ![sid] =
                            Append(@, [question_key |-> question_id,
                                       stage |-> StageAt(scn, si).stage,
                                       selected_text |-> selected_text,
                                       score_delta |-> score_delta,
                                       is_correct |-> score_delta > 0])]
                    /\ RespondCreated(r, question_id, selected_text,
                            Reply("svc_submit", question_id, "Created",
                                  NextId(scn, saved), raced))

Next ==
    \/ \E r \in Reqs, u \in Users, t \in Topics \cup {""} : StartFind(r, u, t)
    \/ \E r \in Reqs : StartCreate(r)
    \/ \E r \in Reqs, u \in Users, sid \in 1..MaxSessions : CurrentRead(r, u, sid)
    \/ \E r \in Reqs : CurrentWrite(r)
    \/ \E r \in Reqs, u \in Users, sid \in 1..MaxSessions : QuitRead(r, u, sid)
    \/ \E r \in Reqs : QuitWrite(r)
    \/ \E r \in Reqs, u \in Users, sid \in 1..MaxSessions : SubmitRequest(r, u, sid)
    \/ \E r \in Reqs : SubmitLock(r)
    \/ \E r \in Reqs, q \in QuestionIds, t \in Labels : SubmitBody(r, q, t)
    \/ \E r \in Reqs, sid \in 1..MaxSessions : SvcSubmitCall(r, sid)
    \/ \E r \in Reqs : SvcSubmitLock(r)
    \/ \E r \in Reqs, q \in QuestionIds, t \in Labels : SvcSubmitBody(r, q, t)
    \/ \E r \in Reqs, u \in Users, t \in Topics \cup {""} : SvcStartFind(r, u, t)
    \/ \E r \in Reqs : SvcStartCreate(r)
    \/ \E r \in Reqs, sid \in 1..MaxSessions : SvcCurrent(r, sid)

Spec == Init /\ [][Next]_vars

----------------------------------------------------------------------------
(* Vocabulary of the properties *)

\* The step in which slot r runs the body of a submit_answer transaction (of the
\* view or of the service) and answers.
BodyStep(r) ==
    /\ req[r].pc \in {"sub_locked", "svc_locked"}
    /\ req'[r].pc = "idle"

RECURSIVE SumDeltas(_)
SumDeltas(rows) ==
    IF rows = <<>> THEN 0 ELSE Head(rows).score_delta + SumDeltas(Tail(rows))

NonPositive(rows) == {i \in DOMAIN rows : rows[i].score_delta <= 0}

AnswersFor(sid, question_id) ==
    {i \in DOMAIN answers[sid] : answers[sid][i].question_key = question_id}

\* A question exists at position (si, qi) of the scenario
HasQuestion(scn, si, qi) ==
    /\ si < Len(scn.stages)
    /\ qi < Len(scn.stages[si + 1].questions)

SubmitOps == {"submit", "svc_submit"}

----------------------------------------------------------------------------
\* C1: under every interleaving of submit_answer calls, the ledger of a session never
\* holds two Answer rows for the same question id.
C1_OneAnswerPerQuestion ==
    \A sid \in 1..MaxSessions : \A i, j \in DOMAIN answers[sid] :
        i # j => answers[sid][i].question_key # answers[sid][j].question_key

\* A submission that repeated the (question, label) of an answer committed while it
\* was waiting for the lock has been answered, and the ledger holds that answer.
C1_Witness ==
    /\ last.raced
    /\ \E sid \in 1..MaxSessions : AnswersFor(sid, last.qid) # {}

\* C2: of two identical submissions that run concurrently, one creates the Answer
\* and the other is answered Conflict, whatever the scenario; no question gets a
\* second Answer row.
C2_LoserSeesConflict ==
    /\ last.raced => last.outcome = "Conflict"
    /\ \A sid \in 1..MaxSessions : \A q \in QuestionIds :
            Cardinality(AnswersFor(sid, q)) <= 1

\* C3: in every committed state, a session's total_score is the sum of the score
\* deltas of its Answer rows.
C3_ScoreIsSumOfDeltas ==
    \A sid \in SessionIds : sessions[sid].total_score = SumDeltas(answers[sid])

C3_Witness ==
    \E sid \in SessionIds :
        /\ Len(answers[sid]) >= 2
        /\ sessions[sid].total_score # 0

\* C4: after every step, a session's wrong_count is the number of its Answer rows
\* with score_delta <= 0, and the step has not decreased wrong_count.
C4_WrongCountMatchesLedger ==
    [][ /\ \A sid \in DOMAIN sessions' :
              sessions'[sid].wrong_count = Cardinality(NonPositive(answers'[sid]))
        /\ \A sid \in SessionIds :
              sessions'[sid].wrong_count >= sessions[sid].wrong_count ]_vars

\* C5: a submit_answer on a completed, failed or abandoned session is answered
\* InvalidState and changes neither the session nor the ledger.
C5_TerminalSubmitRefused ==
    [][ \A r \in Reqs :
            (BodyStep(r) /\ sessions[req[r].sid].status \in Terminal)
            => /\ last'.outcome = "InvalidState"
               /\ sessions' = sessions
               /\ answers' = answers
               /\ question_runs' = question_runs
               /\ stage_runs' = stage_runs ]_vars

C5_Witness ==
    /\ last.op \in SubmitOps
    /\ last.outcome = "InvalidState"
    /\ \E sid \in SessionIds : sessions[sid].status \in Terminal

\* C6: once a session is completed, failed or abandoned, no step changes its status
\* or its ended_reason.
C6_TerminalIsFinal ==
    [][ \A sid \in SessionIds :
            sessions[sid].status \in Terminal
            => /\ sessions'[sid].status = sessions[sid].status
               /\ sessions'[sid].ended_reason = sessions[sid].ended_reason ]_vars

\* C7: while a submit_answer holds a session (from the status check to the final
\* save), no other submit_answer is inside its own section on that session and no
\* quit on that session is between its read and its write of the status.
C7_CriticalSection ==
    \A r1, r2 \in Reqs :
        (/\ r1 # r2
         /\ req[r1].pc \in {"sub_locked", "svc_locked"}
         /\ req[r2].sid = req[r1].sid)
        => req[r2].pc \notin {"sub_locked", "svc_locked", "quit_write"}

\* C8: an accepted answer that brings wrong_count to wrong_limit leaves the session
\* failed / too_many_wrongs with an advice_summary, at the position of the failing
\* question.
C8_FailKeepsPosition ==
    [][ \A r \in Reqs :
            LET old == sessions[req[r].sid]
                new == sessions'[req[r].sid]
            IN  (/\ BodyStep(r)
                 /\ last'.outcome = "Created"
                 /\ new.wrong_count >= new.wrong_limit)
                => /\ new.status = "failed"
                   /\ new.ended_reason = "too_many_wrongs"
                   /\ new.advice_summary # ""
                   /\ new.current_stage_index = old.current_stage_index
                   /\ new.current_question_index = old.current_question_index ]_vars

\* C9: an accepted answer that leaves wrong_count below wrong_limit moves the
\* pointer one step (next question of the stage, or first position of the next
\* stage); the session is completed / finished when no question is at the new
\* position, and otherwise stays in_progress and the response names the question
\* at the new position.
C9_AdvanceThenResolve ==
    [][ \A r \in Reqs :
            LET old == sessions[req[r].sid]
                new == sessions'[req[r].sid]
                scn == files[old.topic]
                si == new.current_stage_index
                qi == new.current_question_index
            IN  (/\ BodyStep(r)
                 /\ last'.outcome = "Created"
                 /\ new.wrong_count < new.wrong_limit)
                => /\ \/ /\ si = old.current_stage_index
                         /\ qi = old.current_question_index + 1
                      \/ /\ si = old.current_stage_index + 1
                         /\ qi = 0
                   /\ IF HasQuestion(scn, si, qi)
                      THEN /\ new.status = "in_progress"
                           /\ new.ended_reason = "null"
                           /\ last'.next = scn.stages[si + 1].questions[qi + 1].id
                      ELSE /\ new.status = "completed"
                           /\ new.ended_reason = "finished" ]_vars

\* An answer was accepted in the middle of a scenario: the session goes on and the
\* response names the next question.
C9_Witness ==
    /\ last.op \in SubmitOps
    /\ last.outcome = "Created"
    /\ last.next # "none"
    /\ \E sid \in SessionIds :
            /\ sessions[sid].status = "in_progress"
            /\ Len(answers[sid]) >= 1

\* C10: once a question has an Answer row in a session, every later submit_answer
\* for that question on that session is answered Conflict and changes neither
\* total_score nor wrong_count.
C10_ResubmitIsConflict ==
    [][ \A r \in Reqs :
            (BodyStep(r) /\ AnswersFor(req[r].sid, last'.qid) # {})
            => /\ last'.outcome = "Conflict"
               /\ sessions'[req[r].sid].total_score = sessions[req[r].sid].total_score
               /\ sessions'[req[r].sid].wrong_count = sessions[req[r].sid].wrong_count ]_vars

\* The session of slot r's submit_answer is in_progress before the step and a
\* question is due at its stored position.
DueBefore(r) ==
    LET old == sessions[req[r].sid]
    IN  /\ old.status = "in_progress"
        /\ FileExists(old.topic)
        /\ HasQuestion(files[old.topic], old.current_stage_index,
                       old.current_question_index)

\* The id of that question.
DueIdBefore(r) ==
    LET old == sessions[req[r].sid]
    IN  files[old.topic].stages[old.current_stage_index + 1]
            .questions[old.current_question_index + 1].id

\* The step leaves every row of the store as it was.
NothingChanged ==
    /\ sessions' = sessions
    /\ answers' = answers
    /\ question_runs' = question_runs
    /\ stage_runs' = stage_runs

DueLabelsBefore(r) ==
    LET old == sessions[req[r].sid]
        options == files[old.topic].stages[old.current_stage_index + 1]
                        .questions[old.current_question_index + 1].options
    IN  {options[i].text : i \in DOMAIN options}

\* C12: a submit_answer on an in_progress session with the due question's id and a
\* label equal to none of that question's option labels is answered OptionNotFound
\* and changes nothing.
C12_UnknownOptionChangesNothing ==
    [][ \A r \in Reqs, q \in QuestionIds, t \in Labels :
            (/\ SubmitBody(r, q, t) \/ SvcSubmitBody(r, q, t)
             /\ DueBefore(r)
             /\ q = DueIdBefore(r)
             /\ t \notin DueLabelsBefore(r))
            => (last'.outcome = "OptionNotFound" /\ NothingChanged) ]_vars

\* A submission of the due question with an unknown label has been refused: the
\* session is in_progress, its due question is the one named and has no Answer row.
C12_Witness ==
    /\ last.op \in SubmitOps
    /\ last.outcome = "OptionNotFound"
    /\ \E sid \in SessionIds :
            /\ sessions[sid].status = "in_progress"
            /\ FileExists(sessions[sid].topic)
            /\ NextId(files[sessions[sid].topic], sessions[sid]) = last.qid
            /\ AnswersFor(sid, last.qid) = {}

\* A submit_answer on an in_progress session that finds no due question completes
\* the session (completed / finished), writes nothing else and reports "no more
\* questions".
NoDueCompletes ==
    \A r \in Reqs :
        LET old == sessions[req[r].sid]
        IN  (/\ BodyStep(r)
             /\ old.status = "in_progress"
             /\ FileExists(old.topic)
             /\ ~HasQuestion(files[old.topic], old.current_stage_index,
                             old.current_question_index))
            => /\ last'.outcome = "NoMoreQuestions"
               /\ sessions' = [sessions EXCEPT ![req[r].sid].status = "completed",
                                               ![req[r].sid].ended_reason = "finished"]
               /\ answers' = answers
               /\ question_runs' = question_runs
               /\ stage_runs' = stage_runs

\* C13 as stated: NoDueCompletes, and every later submit_answer on a session completed
\* that way is answered "no more questions" again.
C13_NoMoreIsRepeated ==
    [][ /\ NoDueCompletes
        /\ \A r \in Reqs :
              (BodyStep(r) /\ req[r].sid \in exhausted)
              => last'.outcome = "NoMoreQuestions" ]_vars

\* C13 (amended): NoDueCompletes, and every later submit_answer on a session
\* completed that way is answered InvalidState and changes nothing.
C13_NoMoreThenInvalidState ==
    [][ /\ NoDueCompletes
        /\ \A r \in Reqs :
              (BodyStep(r) /\ req[r].sid \in exhausted)
              => (last'.outcome = "InvalidState" /\ NothingChanged) ]_vars

\* A submit_answer has been refused on a session that an earlier submit_answer
\* completed for want of a due question.
C13_Witness ==
    /\ last.op \in SubmitOps
    /\ last.outcome = "InvalidState"
    /\ exhausted # {}
    /\ \A sid \in SessionIds : sid \in exhausted /\ sessions[sid].status = "completed"

\* The step in which the quit of slot r on session sid ends: its read when it finds
\* the session not in_progress, its write otherwise.
QuitDone(r, sid) ==
    \/ \E u \in Users : QuitRead(r, u, sid) /\ SessionFor(sid, u) /\ req'[r].pc = "idle"
    \/ QuitWrite(r) /\ req[r].sid = sid

\* C14: a quit that ends on an in_progress session makes it abandoned / user_quit and
\* leaves total_score, wrong_count, position and the ledger as they were; a quit that
\* ends on a completed, failed or abandoned session changes nothing.
C14_QuitOnceOrNoOp ==
    [][ \A r \in Reqs, sid \in SessionIds :
            QuitDone(r, sid)
            => IF sessions[sid].status = "in_progress"
               THEN /\ sessions' = [sessions EXCEPT ![sid].status = "abandoned",
                                                    ![sid].ended_reason = "user_quit"]
                    /\ answers' = answers
                    /\ question_runs' = question_runs
                    /\ stage_runs' = stage_runs
               ELSE NothingChanged ]_vars

\* The step in which a current on session sid ends: the view's read when it answers
\* at once, the view's write, or the service method.
CurrentDone(r, sid) ==
    \/ \E u \in Users : CurrentRead(r, u, sid) /\ SessionFor(sid, u) /\ req'[r].pc = "idle"
    \/ CurrentWrite(r) /\ req[r].sid = sid
    \/ SvcCurrent(r, sid)

\* C15: a current that ends on an in_progress session with no question at its stored
\* position makes the session completed / finished and changes nothing else; in every
\* other case (a due question, or a terminal session) it changes nothing at all.
C15_CurrentRepairsOnly ==
    [][ \A r \in Reqs, sid \in SessionIds :
            (CurrentDone(r, sid) /\ FileExists(sessions[sid].topic))
            => IF /\ sessions[sid].status = "in_progress"
                  /\ ~HasQuestion(files[sessions[sid].topic],
                                  sessions[sid].current_stage_index,
                                  sessions[sid].current_question_index)
               THEN /\ sessions' = [sessions EXCEPT ![sid].status = "completed",
                                                    ![sid].ended_reason = "finished"]
                    /\ answers' = answers
                    /\ question_runs' = question_runs
                    /\ stage_runs' = stage_runs
               ELSE NothingChanged ]_vars

\* The step in which a start_or_resume(u, t) of slot r ends, in the view or the
\* service: its query when it resumes a session, its create otherwise.
StartDone(r, u, t) ==
    \/ (StartFind(r, u, t) \/ SvcStartFind(r, u, t)) /\ t # "" /\ req'[r].pc = "idle"
    \/ (StartCreate(r) \/ SvcStartCreate(r)) /\ req[r].user = u /\ req[r].topic = t

\* C16: a start_or_resume(u, t) that ends while an in_progress session of (u, t)
\* exists returns the newest such session and changes nothing; one that ends while
\* none exists creates a session that is in_progress at (0,0) with total_score 0 and
\* wrong_count 0, and returns it; a session that is not in_progress is never returned.
C16_ResumeElseCreate ==
    [][ \A r \in Reqs, u \in Users, t \in Topics :
            StartDone(r, u, t)
            => /\ IF NewestInProgress(u, t) # 0
                  THEN /\ NothingChanged
                       /\ last'.sid = NewestInProgress(u, t)
                  ELSE /\ Len(sessions') = Len(sessions) + 1
                       /\ \A i \in SessionIds : sessions'[i] = sessions[i]
                       /\ LET new == sessions'[Len(sessions')]
                          IN  /\ new.user = u /\ new.topic = t
                              /\ new.status = "in_progress"
                              /\ new.current_stage_index = 0
                              /\ new.current_question_index = 0
                              /\ new.total_score = 0
                              /\ new.wrong_count = 0
                       /\ last'.sid = Len(sessions')
                       /\ answers' = answers
                       /\ question_runs' = question_runs
                       /\ stage_runs' = stage_runs
               /\ sessions'[last'.sid].status = "in_progress" ]_vars

\* C17: the question due at the position of an in_progress session (the position the
\* last advance has led to) has no Answer row in that session.
C17_DueIsUnanswered ==
    \A sid \in SessionIds :
        LET session == sessions[sid]
            si == session.current_stage_index
            qi == session.current_question_index
        IN  (/\ session.status = "in_progress"
             /\ FileExists(session.topic)
             /\ HasQuestion(files[session.topic], si, qi))
            => \A i \in DOMAIN answers[sid] :
                    answers[sid][i].question_key
                        # files[session.topic].stages[si + 1].questions[qi + 1].id

\* A session has advanced past two answered questions into the next stage and a
\* question is due there.
C17_Witness ==
    \E sid \in SessionIds :
        /\ Len(answers[sid]) = 2
        /\ sessions[sid].status = "in_progress"
        /\ sessions[sid].current_stage_index = 1
        /\ HasQuestion(files[sessions[sid].topic], 1, sessions[sid].current_question_index)

\* C18: while a session is in_progress no step moves its pointer backward: the stage
\* index does not decrease, and within a stage the question index does not decrease.
C18_PointerMonotone ==
    [][ \A sid \in SessionIds :
            LET old == sessions[sid]
                new == sessions'[sid]
            IN  old.status = "in_progress"
                => /\ new.current_stage_index >= old.current_stage_index
                   /\ \/ new.current_stage_index > old.current_stage_index
                      \/ new.current_question_index >= old.current_question_index ]_vars

\* An in_progress session has answered the questions of its first stage and stands
\* at the first question of a later stage: its question index went from 1 to 0.
C18_Witness ==
    \E sid \in SessionIds :
        /\ sessions[sid].status = "in_progress"
        /\ sessions[sid].current_stage_index >= 1
        /\ sessions[sid].current_question_index = 0
        /\ Len(answers[sid]) >= 2

\* C20: an accepted answer to the last question of a stage that is followed by a stage
\* with no questions, given without reaching the wrong limit, leaves the session
\* completed / finished at the first position of that empty stage; and no session is
\* ever positioned beyond an empty stage, so the questions of later stages never
\* become due.
C20_EmptyStageEndsSession ==
    [][ /\ \A r \in Reqs :
              LET old == sessions[req[r].sid]
                  new == sessions'[req[r].sid]
                  stages == files[old.topic].stages
                  s == old.current_stage_index
              IN  (/\ BodyStep(r)
                   /\ last'.outcome = "Created"
                   /\ new.wrong_count < new.wrong_limit
                   /\ old.current_question_index + 1 = Len(stages[s + 1].questions)
                   /\ s + 1 < Len(stages)
                   /\ Len(stages[s + 2].questions) = 0)
                  => /\ new.status = "completed"
                     /\ new.ended_reason = "finished"
                     /\ new.current_stage_index = s + 1
                     /\ new.current_question_index = 0
        /\ \A sid \in DOMAIN sessions' :
              FileExists(sessions'[sid].topic)
              => \A k \in 0..(Len(files[sessions'[sid].topic].stages) - 1) :
                    k < sessions'[sid].current_stage_index
                    => Len(files[sessions'[sid].topic].stages[k + 1].questions) > 0 ]_vars

\* A session was completed by an accepted answer in front of an empty stage while a
\* later stage still holds a question.
C20_Witness ==
    \E sid \in SessionIds :
        LET stages == files[sessions[sid].topic].stages
            s == sessions[sid].current_stage_index
        IN  /\ Len(answers[sid]) >= 1
            /\ sessions[sid].status = "completed"
            /\ sessions[sid].ended_reason = "finished"
            /\ s < Len(stages)
            /\ Len(stages[s + 1].questions) = 0
            /\ \E k \in (s + 2)..Len(stages) : Len(stages[k].questions) > 0

----------------------------------------------------------------------------
(* The Pointer Advancer on its own: the two pieces of code that advance a pointer,  *)
(* applied again and again to a session at an arbitrary stored position.           *)

AdvInit ==
    /\ files \in [FileTopics -> Scenarios]
    /\ sessions \in {<<[NewSession(u, t, DefaultWrongLimit)
                            EXCEPT !.current_stage_index = s,
                                   !.current_question_index = q]>> :
                        u \in Users, t \in FileTopics, s \in 0..MaxPos, q \in 0..MaxPos}
    /\ answers = [i \in 1..MaxSessions |-> <<>>]
    /\ question_runs = [i \in 1..MaxSessions |-> <<>>]
    /\ stage_runs = [i \in 1..MaxSessions |-> {}]
    /\ lock = [i \in 1..MaxSessions |-> 0]
    /\ req = [r \in 1..MaxReqs |-> IdleReq]
    /\ last = Reply("none", "-", "none", "none", FALSE)
    /\ ops = 0
    /\ exhausted = {}

AdvFrame == UNCHANGED <<files, answers, question_runs, stage_runs, lock, req, ops, exhausted>>

\* advance_pointer(scn, session) of the view
AdvView ==
    /\ sessions[1].current_stage_index <= MaxPos
    /\ sessions[1].current_question_index <= MaxPos
    /\ sessions' = [sessions EXCEPT
                        ![1] = advance_pointer(load_scenario(sessions[1].topic), @)]
    /\ last' = Reply("advance_pointer", "-", "ok", "none", FALSE)
    /\ AdvFrame

\* "advance pointer" / "handle stage boundary" of AnswerService.submit_answer
AdvSvc ==
    /\ sessions[1].current_stage_index <= MaxPos
    /\ sessions[1].current_question_index <= MaxPos
    /\ sessions' = [sessions EXCEPT
                        ![1] = SvcAdvance(load_scenario(sessions[1].topic), @)]
    /\ last' = Reply("svc_advance", "-", "ok", "none", FALSE)
    /\ AdvFrame

AdvNext == AdvView \/ AdvSvc

AdvSpec == AdvInit /\ [][AdvNext]_vars

\* C19: an advance maps (s, q) to (s, q+1) when s is a stage index and q+1 is less
\* than that stage's question count, to (s+1, 0) when s is a stage index and q+1 is
\* at least that count, and to (s, q+1) when s is no stage index; the stage index
\* changes by at most 1.
C19_AdvanceMapping ==
    [][ LET old == sessions[1]
            new == sessions'[1]
            stages == files[old.topic].stages
            s == old.current_stage_index
            q == old.current_question_index
            to == <<new.current_stage_index, new.current_question_index>>
        IN  /\ (s < Len(stages) /\ q + 1 < Len(stages[s + 1].questions))
                    => to = <<s, q + 1>>
            /\ (s < Len(stages) /\ q + 1 >= Len(stages[s + 1].questions))
                    => to = <<s + 1, 0>>
            /\ s >= Len(stages) => to = <<s, q + 1>>
            /\ new.current_stage_index - s \in {0, 1} ]_vars

\* An advance has crossed a stage boundary into a stage of the scenario.
C19_Witness ==
    /\ last.op \in {"advance_pointer", "svc_advance"}
    /\ sessions[1].current_stage_index >= 1
    /\ sessions[1].current_stage_index < Len(files[sessions[1].topic].stages)
    /\ sessions[1].current_question_index = 0

----------------------------------------------------------------------------
(* The engine started with an empty store or with two sessions in it: a first     *)
(* session that is fresh or was quit, and a second one created by a later (or an   *)
(* overlapping) start_or_resume.                                                   *)

TwoInit ==
    /\ files \in [FileTopics -> Scenarios]
    /\ sessions \in
            {<<>>}
            \cup {<<NewSession(u, t, 1), NewSession(u, t, DefaultWrongLimit)>> :
                    u \in Users, t \in FileTopics}
            \cup {<<[NewSession(u, t, 1) EXCEPT !.status = "abandoned",
                                                !.ended_reason = "user_quit"],
                    NewSession(u, t, DefaultWrongLimit)>> :
                    u \in Users, t \in FileTopics}
    /\ answers = [i \in 1..MaxSessions |-> <<>>]
    /\ question_runs = [i \in 1..MaxSessions |-> <<>>]
    /\ stage_runs = [i \in 1..MaxSessions |-> {}]
    /\ lock = [i \in 1..MaxSessions |-> 0]
    /\ req = [r \in 1..MaxReqs |-> IdleReq]
    /\ last = Reply("none", "-", "none", "none", FALSE)
    /\ ops = 0
    /\ exhausted = {}

TwoSpec == TwoInit /\ [][Next]_vars

\* The rows of session sid (the session and its ledger) differ after the step.
RowsChanged(sid) ==
    \/ sessions'[sid] # sessions[sid]
    \/ answers'[sid] # answers[sid]
    \/ question_runs'[sid] # question_runs[sid]
    \/ stage_runs'[sid] # stage_runs[sid]

\* Slot r is in the middle of an operation on session sid that has yet to write.
Pending(r, sid) ==
    /\ req[r].sid = sid
    /\ req[r].pc \in {"sub_wait", "sub_locked", "svc_wait", "svc_locked",
                       "quit_write", "cur_write"}

\* C21: a step changes the rows of a session B only if it is the step of an operation
\* on B itself, so an operation on another session A leaves B and B's ledger
\* unchanged; and whenever B's own row lock is free, an operation waiting to lock or
\* to write B can take its step, whatever locks are held on other sessions.
C21_SessionsAreIndependent ==
    [][ /\ \A B \in SessionIds :
              RowsChanged(B) => \E r \in Reqs : Pending(r, B) /\ req'[r].pc = "idle"
        /\ \A r \in Reqs :
              (/\ req[r].pc \in {"sub_wait", "svc_wait", "quit_write", "cur_write"}
               /\ lock[req[r].sid] = 0)
              => ENABLED (\/ SubmitLock(r) \/ SvcSubmitLock(r)
                          \/ QuitWrite(r) \/ CurrentWrite(r)) ]_vars

\* A submit_answer holds the lock of one session while another submit_answer has
\* been granted the lock of a different session.
C21_Witness ==
    \E r1, r2 \in Reqs :
        /\ req[r1].pc \in {"sub_locked", "svc_locked"}
        /\ req[r2].pc \in {"sub_locked", "svc_locked"}
        /\ req[r1].sid # req[r2].sid

----------------------------------------------------------------------------
(* A client of the answer endpoint that keeps submitting, on a session that is     *)
(* in_progress, an answer to the question then due with one of its option labels.  *)

LiveInit ==
    /\ files \in [FileTopics -> Scenarios]
    /\ sessions \in {<<NewSession(u, t, w)>> :
                        u \in Users, t \in FileTopics, w \in WrongLimits}
    /\ answers = [i \in 1..MaxSessions |-> <<>>]
    /\ question_runs = [i \in 1..MaxSessions |-> <<>>]
    /\ stage_runs = [i \in 1..MaxSessions |-> {}]
    /\ lock = [i \in 1..MaxSessions |-> 0]
    /\ req = [r \in 1..MaxReqs |-> IdleReq]
    /\ last = Reply("none", "-", "none", "none", FALSE)
    /\ ops = 0
    /\ exhausted = {}

\* POST session/<sid>/answer/ by the owner of an in_progress session: the request
\* finds the row and waits for its lock.
ClientSubmits(r, sid) ==
    /\ req[r].pc = "idle"
    /\ sid \in SessionIds
    /\ sessions[sid].status = "in_progress"
    /\ req' = [req EXCEPT ![r] = [IdleReq EXCEPT !.pc = "sub_wait", !.sid = sid]]
    /\ UNCHANGED <<files, lock, last, ops, exhausted>>
    /\ StoreUnchanged

\* The transaction body of that request, with a valid answer to the due question
\* whenever a question is due.
ClientBody(r, question_id, selected_text) ==
    /\ SubmitBody(r, question_id, selected_text)
    /\ DueBefore(r) => /\ question_id = DueIdBefore(r)
                       /\ selected_text \in DueLabelsBefore(r)

LiveNext ==
    \E r \in Reqs :
        \/ \E sid \in 1..MaxSessions : ClientSubmits(r, sid)
        \/ SubmitLock(r)
        \/ \E q \in QuestionIds, t \in Labels : ClientBody(r, q, t)

\* Every request that can take its next step eventually takes it.
LiveFair ==
    \A r \in Reqs :
        /\ WF_vars(\E sid \in 1..MaxSessions : ClientSubmits(r, sid))
        /\ WF_vars(SubmitLock(r))
        /\ WF_vars(\E q \in QuestionIds, t \in Labels : ClientBody(r, q, t))

LiveSpec == LiveInit /\ [][LiveNext]_vars /\ LiveFair

RECURSIVE CountQuestions(_)
CountQuestions(stages) ==
    IF stages = <<>> THEN 0
    ELSE Len(Head(stages).questions) + CountQuestions(Tail(stages))

\* C22: a session never holds more Answer rows than its scenario has questions, and
\* when the client keeps submitting a valid answer to the due question, the session
\* eventually is completed or failed.
C22_BoundedAndTerminates ==
    /\ [](\A sid \in SessionIds :
            Len(answers[sid]) <= CountQuestions(files[sessions[sid].topic].stages))
    /\ <>(\A sid \in SessionIds : sessions[sid].status \in {"completed", "failed"})

\* The in_progress sessions of a (user, topic) pair
InProgressOf(u, t) ==
    {i \in SessionIds : /\ sessions[i].user = u
                        /\ sessions[i].topic = t
                        /\ sessions[i].status = "in_progress"}

\* C23: whatever the interleaving of start_or_resume calls, a (user, topic) pair never
\* has more than one in_progress session.
C23_AtMostOneInProgress ==
    \A u \in Users, t \in Topics : Cardinality(InProgressOf(u, t)) <= 1

\* A question is due at the stored position of the session row s.
Resolvable(s) ==
    /\ FileExists(s.topic)
    /\ HasQuestion(files[s.topic], s.current_stage_index, s.current_question_index)

\* C24: a session that is in_progress when a submit_answer on it has committed has a
\* due question at its stored position; and an in_progress session with no due
\* question at its stored position has no accepted answer.
C24_InProgressHasDueQuestion ==
    [][ /\ \A r \in Reqs :
              (BodyStep(r) /\ sessions'[req[r].sid].status = "in_progress")
              => Resolvable(sessions'[req[r].sid])
        /\ \A sid \in SessionIds :
              (sessions'[sid].status = "in_progress" /\ ~Resolvable(sessions'[sid]))
              => answers'[sid] = <<>> ]_vars

\* C25: a session with wrong_limit >= 1 that is in_progress has
\* wrong_count < wrong_limit, one that is failed has wrong_count >= wrong_limit, and
\* wrong_count never exceeds wrong_limit.
C25_WrongCountWithinLimit ==
    \A sid \in SessionIds :
        LET s == sessions[sid]
        IN  s.wrong_limit >= 1
            => /\ s.status = "in_progress" => s.wrong_count < s.wrong_limit
               /\ s.status = "failed" => s.wrong_count >= s.wrong_limit
               /\ s.wrong_count <= s.wrong_limit

\* A session with wrong_limit 2 has failed on its second wrong answer.
C25_Witness ==
    \E sid \in SessionIds :
        /\ sessions[sid].status = "failed"
        /\ sessions[sid].wrong_limit = 2
        /\ sessions[sid].wrong_count = 2
        /\ Len(answers[sid]) = 2

\* C26: in every state, ended_reason is null exactly when status is in_progress,
\* finished exactly when completed, too_many_wrongs exactly when failed, and
\* user_quit exactly when abandoned.
C26_StatusReasonAgree ==
    \A sid \in SessionIds :
        LET s == sessions[sid]
        IN  /\ s.ended_reason = "null" <=> s.status = "in_progress"
            /\ s.ended_reason = "finished" <=> s.status = "completed"
            /\ s.ended_reason = "too_many_wrongs" <=> s.status = "failed"
            /\ s.ended_reason = "user_quit" <=> s.status = "abandoned"

\* A quit that overlapped a submit_answer has saved its status over the one the
\* failing answer had committed: the session is abandoned with its wrong limit reached.
C26_Witness ==
    \E sid \in SessionIds :
        /\ sessions[sid].status = "abandoned"
        /\ sessions[sid].ended_reason = "user_quit"
        /\ sessions[sid].wrong_count >= sessions[sid].wrong_limit
        /\ Len(answers[sid]) >= 1

\* C27: a start_or_resume that is answered ScenarioNotFound has left the sessions as
\* they were: no session has been created.
C27_FailedStartCreatesNothing ==
    [][ \A r \in Reqs, u \in Users, t \in Topics :
            (StartDone(r, u, t) /\ last'.outcome = "ScenarioNotFound")
            => sessions' = sessions ]_vars
====
